---- MODULE Spec2Model ----
(***************************************************************************)
(* Bio/_py3k/__init__.py: the Python 2 / Python 3 compatibility facade.    *)
(*                                                                         *)
(* The module binds one set of names when sys.version_info[0] >= 3 and     *)
(* another set otherwise, and binds getoutput by sys.platform.  The two    *)
(* flags are read once at import and never change.  Every exported         *)
(* function is pure; a behaviour of the model is an import (Init) followed *)
(* by a short chain of calls, each applied to the value the previous call  *)
(* returned (or to the original argument when nothing was called yet).     *)
(*                                                                         *)
(* Python values are records [kind, val]:                                  *)
(*   "bytes"      raw bytes (Python 3 bytes, Python 2 str), val = bytes    *)
(*   "bytearray"  mutable byte buffer, val = bytes                         *)
(*   "text"       textual string (Python 3 str, Python 2 unicode),         *)
(*                val = code points                                        *)
(*   "int","long" integers, val = magnitude in base-2^16 limbs, low first  *)
(*   "float"      val = <<whole, tenths>>                                  *)
(*   "bool"       val = <<0>> or <<1>>                                     *)
(*   "handle"     a binary readable resource, val = its attributes         *)
(*   "TextIOWrapper"  the text wrapper of a handle                         *)
(*   "cmd"        a command line, val = what the child does when spawned   *)
(* A call's outcome is [exc, val]: exc = "none" and the returned value, or *)
(* the name of the exception that left the call.                           *)
(***************************************************************************)
EXTENDS Integers, Sequences, FiniteSets, TLC

VARIABLES py3, win32, x, calls, hist

vars == <<py3, win32, x, calls, hist>>

\* Longest sampled byte / text string.
MaxLen == 2
\* Longest chain of calls after import.
MaxCalls == 2

\* Latin-1 covers code points 0..255; ASCII, the Python 2 default codec, 0..127.
Latin1Size == 256
AsciiSize == 128

LF == 10
CR == 13

Value(k, v) == [kind |-> k, val |-> v]
NoneValue == Value("NoneType", <<>>)
Return(v) == [exc |-> "none", val |-> v]
Raise(e) == [exc |-> e, val |-> NoneValue]

\* Python's ==: bytes and bytearray compare by content, other kinds never
\* equal a value of another kind.
BinaryKinds == {"bytes", "bytearray"}
PyEq(a, b) ==
    /\ \/ a.kind = b.kind
       \/ a.kind \in BinaryKinds /\ b.kind \in BinaryKinds
    /\ a.val = b.val

----------------------------------------------------------------------------
(* Codecs of the runtime, as the facade uses them.                         *)

\* codecs.latin_1_decode: byte n becomes code point n; never fails.
RECURSIVE latin_1_decode(_)
latin_1_decode(b) ==
    IF b = <<>> THEN <<>>
    ELSE <<Head(b)>> \o latin_1_decode(Tail(b))

\* Marker for a codec failure (no byte or code point is negative).
CodecError == <<-1>>

\* codecs.latin_1_encode: code point c < 256 becomes byte c, else it fails.
RECURSIVE latin_1_encode(_)
latin_1_encode(t) ==
    IF t = <<>> THEN <<>>
    ELSE IF Head(t) >= Latin1Size THEN CodecError
    ELSE LET rest == latin_1_encode(Tail(t))
         IN  IF rest = CodecError THEN CodecError ELSE <<Head(t)>> \o rest

\* Python 2 default codec, decoding: bytes >= 0x80 are rejected.
RECURSIVE ascii_decode(_)
ascii_decode(b) ==
    IF b = <<>> THEN <<>>
    ELSE IF Head(b) >= AsciiSize THEN CodecError
    ELSE LET rest == ascii_decode(Tail(b))
         IN  IF rest = CodecError THEN CodecError ELSE <<Head(b)>> \o rest

\* Python 2 default codec, encoding: code points >= 0x80 are rejected.
RECURSIVE ascii_encode(_)
ascii_encode(t) ==
    IF t = <<>> THEN <<>>
    ELSE IF Head(t) >= AsciiSize THEN CodecError
    ELSE LET rest == ascii_encode(Tail(t))
         IN  IF rest = CodecError THEN CodecError ELSE <<Head(t)>> \o rest

IsCont(b, i) == i <= Len(b) /\ b[i] >= 128 /\ b[i] <= 191
InRange(b, i, lo, hi) == i <= Len(b) /\ b[i] >= lo /\ b[i] <= hi

\* Length of the well-formed UTF-8 sequence b starts with, 0 when there is none.
Utf8SeqLen(b) ==
    LET h == Head(b) IN
    IF h < 128 THEN 1
    ELSE IF h >= 194 /\ h <= 223 THEN (IF IsCont(b, 2) THEN 2 ELSE 0)
    ELSE IF h = 224 THEN (IF InRange(b, 2, 160, 191) /\ IsCont(b, 3) THEN 3 ELSE 0)
    ELSE IF h = 237 THEN (IF InRange(b, 2, 128, 159) /\ IsCont(b, 3) THEN 3 ELSE 0)
    ELSE IF h >= 225 /\ h <= 239 THEN (IF IsCont(b, 2) /\ IsCont(b, 3) THEN 3 ELSE 0)
    ELSE IF h = 240
         THEN (IF InRange(b, 2, 144, 191) /\ IsCont(b, 3) /\ IsCont(b, 4) THEN 4 ELSE 0)
    ELSE IF h >= 241 /\ h <= 243
         THEN (IF IsCont(b, 2) /\ IsCont(b, 3) /\ IsCont(b, 4) THEN 4 ELSE 0)
    ELSE IF h = 244
         THEN (IF InRange(b, 2, 128, 143) /\ IsCont(b, 3) /\ IsCont(b, 4) THEN 4 ELSE 0)
    ELSE 0

\* Code point of the n-byte UTF-8 sequence at the head of b.
Utf8CodePoint(b, n) ==
    IF n = 1 THEN b[1]
    ELSE IF n = 2 THEN (b[1] - 192) * 64 + (b[2] - 128)
    ELSE IF n = 3 THEN (b[1] - 224) * 4096 + (b[2] - 128) * 64 + (b[3] - 128)
    ELSE (b[1] - 240) * 262144 + (b[2] - 128) * 4096 + (b[3] - 128) * 64 + (b[4] - 128)

\* Python 3 default codec (strict UTF-8), decoding.
RECURSIVE utf_8_decode(_)
utf_8_decode(b) ==
    IF b = <<>> THEN <<>>
    ELSE LET n == Utf8SeqLen(b) IN
         IF n = 0 THEN CodecError
         ELSE LET rest == utf_8_decode(SubSeq(b, n + 1, Len(b)))
              IN  IF rest = CodecError THEN CodecError
                  ELSE <<Utf8CodePoint(b, n)>> \o rest

----------------------------------------------------------------------------
(* Bindings made when sys.version_info[0] >= 3.                            *)

\* A bug the source could have: the buffer is only converted to raw bytes.
py3_bytes_bytearray_to_str_keeps_bytes(s) ==
    IF s.kind = "bytearray" THEN Return(Value("bytes", s.val))
    ELSE IF s.kind = "bytes"
    THEN LET t == utf_8_decode(s.val)
         IN  IF t = CodecError THEN Raise("UnicodeDecodeError")
             ELSE Return(Value("text", t))
    ELSE Return(s)

py3_bytes_bytearray_to_str(s) ==
    IF s.kind \in {"bytes", "bytearray"}
    THEN LET t == utf_8_decode(s.val)
         IN  IF t = CodecError THEN Raise("UnicodeDecodeError")
             ELSE Return(Value("text", t))
    ELSE Return(s)

\* A bug the source could have: the default codec instead of Latin-1.
py3_as_unicode_default_codec(s) ==
    IF s.kind = "text" THEN Return(s)
    ELSE IF s.kind \in BinaryKinds
    THEN LET t == utf_8_decode(s.val)
         IN  IF t = CodecError THEN Raise("UnicodeDecodeError")
             ELSE Return(Value("text", t))
    ELSE Raise("TypeError")

py3_as_unicode(s) ==
    IF s.kind = "text" THEN Return(s)
    ELSE IF s.kind \in BinaryKinds
    THEN Return(Value("text", latin_1_decode(s.val)))
    ELSE Raise("TypeError")

\* A bug the source could have: characters that do not fit are replaced by "?".
RECURSIVE latin_1_encode_replace(_)
latin_1_encode_replace(t) ==
    IF t = <<>> THEN <<>>
    ELSE <<IF Head(t) >= Latin1Size THEN 63 ELSE Head(t)>>
         \o latin_1_encode_replace(Tail(t))

py3_as_bytes_lossy(s) ==
    IF s.kind = "bytes" THEN Return(s)
    ELSE IF s.kind = "text"
    THEN Return(Value("bytes", latin_1_encode_replace(s.val)))
    ELSE Raise("TypeError")

\* A bug the source could have: the default codec (UTF-8) instead of Latin-1.
RECURSIVE utf_8_encode(_)
utf_8_encode(t) ==
    IF t = <<>> THEN <<>>
    ELSE (IF Head(t) < 128 THEN <<Head(t)>>
          ELSE IF Head(t) < 2048
          THEN <<192 + (Head(t) \div 64), 128 + (Head(t) % 64)>>
          ELSE IF Head(t) < 65536
          THEN <<224 + (Head(t) \div 4096), 128 + ((Head(t) \div 64) % 64),
                 128 + (Head(t) % 64)>>
          ELSE <<240 + (Head(t) \div 262144), 128 + ((Head(t) \div 4096) % 64),
                 128 + ((Head(t) \div 64) % 64), 128 + (Head(t) % 64)>>)
         \o utf_8_encode(Tail(t))

py3_as_bytes_default_codec(s) ==
    IF s.kind = "bytes" THEN Return(s)
    ELSE IF s.kind = "text" THEN Return(Value("bytes", utf_8_encode(s.val)))
    ELSE Raise("TypeError")

\* A bug the source could have: raw bytes are copied into a new buffer.
py3_as_bytes_copies(s) ==
    IF s.kind = "bytes" THEN Return(Value("bytearray", s.val))
    ELSE IF s.kind = "text"
    THEN LET b == latin_1_encode(s.val)
         IN  IF b = CodecError THEN Raise("UnicodeEncodeError")
             ELSE Return(Value("bytes", b))
    ELSE Raise("TypeError")

\* isinstance(s, bytes) is false for a bytearray, and latin_1_encode takes
\* only a str: anything that is neither bytes nor text is a TypeError.
py3_as_bytes(s) ==
    IF s.kind = "bytes" THEN Return(s)
    ELSE IF s.kind = "text"
    THEN LET b == latin_1_encode(s.val)
         IN  IF b = CodecError THEN Raise("UnicodeEncodeError")
             ELSE Return(Value("bytes", b))
    ELSE Raise("TypeError")

Bool(p) == Value("bool", IF p THEN <<1>> ELSE <<0>>)

\* isinstance(i, int); bool is a subclass of int.
py3_is_int_or_long(i) == Return(Bool(i.kind \in {"int", "bool"}))

KnownCodecs == {"latin-1", "utf-8", "ascii"}

\* handle.headers.get_content_charset(): AttributeError when the handle has no
\* headers attribute, or headers that are no email message (no such method).
get_content_charset(handle) ==
    IF handle.val.headers = "message"
    THEN Return(Value("charset", handle.val.charset))
    ELSE Raise("AttributeError")

\* io.TextIOWrapper(io.BufferedReader(handle), encoding=encoding): the codec is
\* looked up by name when the wrapper is built.
TextIOWrapper(handle, encoding) ==
    IF encoding \in KnownCodecs
    THEN Return(Value("TextIOWrapper",
                      [encoding |-> encoding, url |-> "absent", buffer |-> handle]))
    ELSE Raise("LookupError")

\* A bug the source could have: the runtime's default codec as the fallback.
py3_binary_to_string_handle_default_codec(handle) ==
    LET got == get_content_charset(handle)
        declared == IF got.exc = "AttributeError" THEN "None" ELSE got.val.val
        encoding == IF declared = "None" THEN "utf-8" ELSE declared
        wrapped == TextIOWrapper(handle, encoding)
    IN  IF wrapped.exc # "none" THEN wrapped
        ELSE IF handle.val.url = "absent" THEN wrapped
        ELSE Return(Value("TextIOWrapper",
                          [wrapped.val.val EXCEPT !.url = handle.val.url]))

\* A bug the source could have: handle.url read outside the try block.
py3_binary_to_string_handle_url_unguarded(handle) ==
    LET got == get_content_charset(handle)
        declared == IF got.exc = "AttributeError" THEN "None" ELSE got.val.val
        encoding == IF declared = "None" THEN "latin-1" ELSE declared
        wrapped == TextIOWrapper(handle, encoding)
    IN  IF wrapped.exc # "none" THEN wrapped
        ELSE IF handle.val.url = "absent" THEN Raise("AttributeError")
        ELSE Return(Value("TextIOWrapper",
                          [wrapped.val.val EXCEPT !.url = handle.val.url]))

py3_binary_to_string_handle(handle) ==
    LET got == get_content_charset(handle)
        \* try: ... except AttributeError: encoding = None
        declared == IF got.exc = "AttributeError" THEN "None" ELSE got.val.val
        \* if encoding is None: encoding = 'latin-1'
        encoding == IF declared = "None" THEN "latin-1" ELSE declared
        wrapped == TextIOWrapper(handle, encoding)
    IN  IF wrapped.exc # "none" THEN wrapped
        \* try: wrapped.url = handle.url  except AttributeError: pass
        ELSE IF handle.val.url = "absent" THEN wrapped
        ELSE Return(Value("TextIOWrapper",
                          [wrapped.val.val EXCEPT !.url = handle.val.url]))

----------------------------------------------------------------------------
(* Bindings made when sys.version_info[0] < 3.  There bytes is str, the    *)
(* native string, and str(s), s.decode() use the default ASCII codec.      *)

\* str(s): a str is returned as it is, a bytearray is copied into a str, a
\* unicode string is encoded with the default codec.
py2_str(s) ==
    IF s.kind = "bytes" THEN Return(s)
    ELSE IF s.kind = "bytearray" THEN Return(Value("bytes", s.val))
    ELSE LET b == ascii_encode(s.val)
         IN  IF b = CodecError THEN Raise("UnicodeEncodeError")
             ELSE Return(Value("bytes", b))

py2_bytes_bytearray_to_str(s) ==
    IF s.kind \in {"bytes", "bytearray"} THEN py2_str(s)
    ELSE Return(s)

py2_as_unicode(s) ==
    IF s.kind = "text" THEN Return(s)
    ELSE IF s.kind \in BinaryKinds
    THEN LET t == ascii_decode(s.val)
         IN  IF t = CodecError THEN Raise("UnicodeDecodeError")
             ELSE Return(Value("text", t))
    ELSE Raise("AttributeError")

py2_as_bytes(s) == py2_str(s)

\* A bug the source could have: the long type is forgotten.
py2_is_int_or_long_int_only(i) == Return(Bool(i.kind \in {"int", "bool"}))

\* isinstance(i, (int, long)); bool is a subclass of int.
py2_is_int_or_long(i) == Return(Bool(i.kind \in {"int", "long", "bool"}))

py2_binary_to_string_handle(handle) == Return(handle)

----------------------------------------------------------------------------
(* The names the facade exports: which binding a name has was decided by   *)
(* `if sys.version_info[0] >= 3` when the module was imported.             *)

_bytes_bytearray_to_str(v3, s) ==
    IF v3 THEN py3_bytes_bytearray_to_str(s) ELSE py2_bytes_bytearray_to_str(s)

_as_unicode(v3, s) == IF v3 THEN py3_as_unicode(s) ELSE py2_as_unicode(s)

_as_bytes(v3, s) == IF v3 THEN py3_as_bytes(s) ELSE py2_as_bytes(s)

_is_int_or_long(v3, i) ==
    IF v3 THEN py3_is_int_or_long(i) ELSE py2_is_int_or_long(i)

_binary_to_string_handle(v3, handle) ==
    IF v3 THEN py3_binary_to_string_handle(handle)
    ELSE py2_binary_to_string_handle(handle)

----------------------------------------------------------------------------
(* getoutput as defined when sys.platform == "win32".                      *)

\* universal_newlines=True: "\r\n" and a lone "\r" are read as "\n".
RECURSIVE universal_newlines(_)
universal_newlines(raw) ==
    IF raw = <<>> THEN <<>>
    ELSE IF Head(raw) = CR
    THEN IF Len(raw) >= 2 /\ raw[2] = LF
         THEN <<LF>> \o universal_newlines(SubSeq(raw, 3, Len(raw)))
         ELSE <<LF>> \o universal_newlines(Tail(raw))
    ELSE <<Head(raw)>> \o universal_newlines(Tail(raw))

\* str.rstrip(chars): the longest suffix made of chars is dropped.
RECURSIVE rstrip(_, _)
rstrip(s, chars) ==
    IF s = <<>> THEN s
    ELSE IF s[Len(s)] \in chars THEN rstrip(SubSeq(s, 1, Len(s) - 1), chars)
    ELSE s

\* string.whitespace: space, \t, \n, \r, \x0b, \x0c.
Whitespace == {32, 9, 10, 13, 11, 12}

\* A bug the source could have: rstrip() without an argument.
getoutput_strips_whitespace(cmd) ==
    IF ~cmd.val.spawns THEN Raise("OSError")
    ELSE Return(Value("text", rstrip(universal_newlines(cmd.val.output), Whitespace)))

\* Popen raises when the command cannot be spawned; communicate() returns the
\* child's stdout (stderr merged into it) read in text mode.
getoutput(cmd) ==
    IF ~cmd.val.spawns THEN Raise("OSError")
    ELSE LET stdout == universal_newlines(cmd.val.output)
         IN  Return(Value("text", rstrip(stdout, {LF})))

----------------------------------------------------------------------------
(* Arguments the calls are tried on.                                       *)

RECURSIVE SeqsUpTo(_, _)
SeqsUpTo(S, n) ==
    IF n = 0 THEN {<<>>}
    ELSE LET P == SeqsUpTo(S, n - 1)
         IN  P \cup {Append(p, e) : p \in P, e \in S}

\* Every single byte, and all strings up to MaxLen over a sample holding
\* ASCII, the bounds of the upper half and a UTF-8 lead / continuation pair.
ByteSample == {0, 65, 127, 128, 169, 195, 255}
ByteStrings == SeqsUpTo(ByteSample, MaxLen) \cup {<<b>> : b \in 0 .. (Latin1Size - 1)}

\* Every single code point up to 256, and all strings up to MaxLen over a
\* sample with code points on both sides of 127 and of 255.
CodePointSample == {0, 65, 127, 128, 233, 255, 256, 128512}
TextStrings == SeqsUpTo(CodePointSample, MaxLen) \cup {<<c>> : c \in 0 .. Latin1Size}

\* 0, 5, 2^63 - 1 (sys.maxint of a 64-bit build), 2^63 and 2^64.
WordMax == <<65535, 65535, 65535, 32767>>
Magnitudes == {<<0>>, <<5>>, WordMax, <<0, 0, 0, 32768>>, <<0, 0, 0, 0, 1>>}
FitsMachineWord(m) == Len(m) < 4 \/ (Len(m) = 4 /\ m[4] <= 32767)

\* Python 3 has one integer type; Python 2 makes a literal an int when it
\* fits a machine word and a long otherwise, and 5L is a long as well.
Integers3 == {Value("int", m) : m \in Magnitudes}
Integers2 ==
    {Value("int", m) : m \in {n \in Magnitudes : FitsMachineWord(n)}}
    \cup {Value("long", m) : m \in Magnitudes}

Floats == {Value("float", f) : f \in {<<5, 0>>, <<2, 5>>}}

Strings ==
    {Value("bytes", b) : b \in ByteStrings}
    \cup {Value("bytearray", b) : b \in ByteStrings}
    \cup {Value("text", t) : t \in TextStrings}

\* A handle may lack headers, have headers that are no email message, or have
\* message headers, with or without a charset; it may or may not have a url.
Handles ==
    {Value("handle", [headers |-> h, charset |-> "None", url |-> u]) :
        h \in {"absent", "plain", "message"}, u \in {"absent", "http://example.org/"}}
    \cup
    {Value("handle", [headers |-> "message", charset |-> c, url |-> u]) :
        c \in {"utf-8", "latin-1", "x-unknown"}, u \in {"absent", "http://example.org/"}}

\* What a child prints: h, space, tab, "\n", "\r".
OutputChars == {104, 32, 9, LF, CR}
Commands ==
    {Value("cmd", [spawns |-> TRUE, output |-> o]) : o \in SeqsUpTo(OutputChars, MaxLen + 1)}
    \cup {Value("cmd", [spawns |-> FALSE, output |-> <<>>])}

Inputs(v3) ==
    Strings \cup (IF v3 THEN Integers3 ELSE Integers2) \cup Floats
    \cup Handles \cup Commands

StringKinds == {"bytes", "bytearray", "text"}

----------------------------------------------------------------------------
(* The state machine.                                                      *)

\* The module is imported (the two flags are read) and an argument is at hand.
Init ==
    /\ py3 \in BOOLEAN
    /\ win32 \in BOOLEAN
    /\ x \in Inputs(py3)
    /\ calls = <<>>
    /\ hist = <<>>

\* The same on a runtime of the current generation.
InitPy3 == Init /\ py3 = TRUE

\* The value the next call is applied to.
Cur == IF hist = <<>> THEN x ELSE hist[Len(hist)].val

\* An exception ends the chain: it propagates to the caller.
CanCall ==
    /\ Len(calls) < MaxCalls
    /\ IF hist = <<>> THEN TRUE ELSE hist[Len(hist)].exc = "none"

Record(name, outcome) ==
    /\ calls' = Append(calls, name)
    /\ hist' = Append(hist, outcome)
    /\ UNCHANGED <<py3, win32, x>>

Call_bytes_bytearray_to_str ==
    /\ CanCall
    /\ Record("bytes_bytearray_to_str", _bytes_bytearray_to_str(py3, Cur))

Call_as_unicode ==
    /\ CanCall
    /\ Cur.kind \in StringKinds
    /\ Record("as_unicode", _as_unicode(py3, Cur))

Call_as_bytes ==
    /\ CanCall
    /\ Cur.kind \in StringKinds
    /\ Record("as_bytes", _as_bytes(py3, Cur))

Call_is_int_or_long ==
    /\ CanCall
    /\ Record("is_int_or_long", _is_int_or_long(py3, Cur))

Call_binary_to_string_handle ==
    /\ CanCall
    /\ Cur.kind = "handle"
    /\ Record("binary_to_string_handle", _binary_to_string_handle(py3, Cur))

\* Only the win32 definition is the facade's own; elsewhere the name is the
\* runtime's subprocess.getoutput / commands.getoutput.
Call_getoutput ==
    /\ CanCall
    /\ win32
    /\ Cur.kind = "cmd"
    /\ Record("getoutput", getoutput(Cur))

Next ==
    \/ Call_bytes_bytearray_to_str
    \/ Call_as_unicode
    \/ Call_as_bytes
    \/ Call_is_int_or_long
    \/ Call_binary_to_string_handle
    \/ Call_getoutput

Spec == Init /\ [][Next]_vars

SpecPy3 == InitPy3 /\ [][Next]_vars

TypeOK ==
    /\ py3 \in BOOLEAN
    /\ win32 \in BOOLEAN
    /\ Len(calls) = Len(hist)
    /\ Len(calls) <= MaxCalls

----------------------------------------------------------------------------
(* Properties.                                                             *)

\* The argument, the outcome and the name of the i-th call of the chain.
Arg(i) == IF i = 1 THEN x ELSE hist[i - 1].val
Called(i, name) == i >= 1 /\ i <= Len(calls) /\ calls[i] = name
Returned(i) == hist[i].exc = "none"
Result(i) == hist[i].val
Calls == 1 .. Len(calls)

\* The same object as far as the model tells: same type, same content.
SameValue(a, b) == a.kind = b.kind /\ a.val = b.val

Elements(s) == {s[i] : i \in 1 .. Len(s)}

\* C1: on the version >= 3 bindings, as_unicode of any bytes value or byte
\* buffer returns, and as_bytes of what it returned compares equal to the
\* original bytes.
C1_BytesRoundTrip ==
    \A i \in Calls :
        (Called(i, "as_unicode") /\ Arg(i).kind \in BinaryKinds) =>
            /\ Returned(i)
            /\ Called(i + 1, "as_bytes") =>
                   (Returned(i + 1) /\ PyEq(Result(i + 1), Arg(i)))

C1_Witness ==
    /\ py3
    /\ calls = <<"as_unicode", "as_bytes">>
    /\ x.kind = "bytes"
    /\ 255 \in Elements(x.val)
    /\ Returned(2)
    /\ PyEq(Result(2), x)

\* C2: on the version >= 3 bindings, as_bytes of a text whose code points are
\* all in 0..255 returns, and as_unicode of what it returned is that text.
C2_TextRoundTrip ==
    \A i \in Calls :
        (/\ Called(i, "as_bytes")
         /\ Arg(i).kind = "text"
         /\ \A c \in Elements(Arg(i).val) : c < Latin1Size) =>
            /\ Returned(i)
            /\ Called(i + 1, "as_unicode") =>
                   (Returned(i + 1) /\ SameValue(Result(i + 1), Arg(i)))

C2_Witness ==
    /\ py3
    /\ calls = <<"as_bytes", "as_unicode">>
    /\ x.kind = "text"
    /\ Elements(x.val) = {233, 255}
    /\ Returned(2)
    /\ SameValue(Result(2), x)

\* C3: as_bytes of a text holding a code point >= 256 returns nothing: the
\* call is left by the codec's UnicodeEncodeError.
C3_EncodeErrorPropagates ==
    \A i \in Calls :
        (/\ Called(i, "as_bytes")
         /\ Arg(i).kind = "text"
         /\ \E c \in Elements(Arg(i).val) : c >= Latin1Size) =>
            hist[i].exc = "UnicodeEncodeError"

C3_Witness ==
    /\ py3
    /\ calls = <<"as_bytes">>
    /\ x = Value("text", <<65, 128512>>)
    /\ hist[1].exc = "UnicodeEncodeError"

\* C4: bytes_bytearray_to_str applied to what bytes_bytearray_to_str returned
\* returns that same value, and applied to anything that is neither bytes nor
\* a byte buffer it returns its argument.
C4_Idempotent ==
    \A i \in Calls :
        Called(i, "bytes_bytearray_to_str") =>
            /\ Arg(i).kind \notin BinaryKinds =>
                   (Returned(i) /\ SameValue(Result(i), Arg(i)))
            /\ (Returned(i) /\ Called(i + 1, "bytes_bytearray_to_str")) =>
                   (Returned(i + 1) /\ SameValue(Result(i + 1), Result(i)))

C4_Witness ==
    /\ calls = <<"bytes_bytearray_to_str", "bytes_bytearray_to_str">>
    /\ x = Value("bytearray", <<195, 169>>)
    /\ Returned(2)
    /\ Result(2) = Result(1)

\* The charset a handle's headers declare, "None" when they declare none or
\* the handle has no usable headers.
DeclaredCharset(h) == IF h.val.headers = "message" THEN h.val.charset ELSE "None"

\* C5: on the version >= 3 bindings, the handle binary_to_string_handle
\* returns decodes with the charset the source's headers declare, and with
\* latin-1 when there are no headers, no charset accessor or no charset; the
\* call always returns in those three cases.
C5_EncodingResolution ==
    \A i \in Calls :
        Called(i, "binary_to_string_handle") =>
            /\ Returned(i) =>
                   /\ Result(i).kind = "TextIOWrapper"
                   /\ Result(i).val.encoding =
                          (IF DeclaredCharset(Arg(i)) # "None"
                           THEN DeclaredCharset(Arg(i)) ELSE "latin-1")
            /\ DeclaredCharset(Arg(i)) = "None" => Returned(i)

C5_Witness ==
    /\ py3
    /\ calls = <<"binary_to_string_handle">>
    /\ x.val.headers = "plain"
    /\ Returned(1)
    /\ Result(1).val.encoding = "latin-1"

\* C6: on the version >= 3 bindings, binary_to_string_handle is never left by
\* an AttributeError; the only exception is the codec lookup failing for a
\* declared charset.  A source without headers, or without url and without
\* such a charset, gets a wrapper; the wrapper's url is the source's url when
\* the source has one, and the wrapper has no url when the source has none.
C6_MissingAttributesIgnored ==
    \A i \in Calls :
        Called(i, "binary_to_string_handle") =>
            /\ hist[i].exc \in {"none", "LookupError"}
            /\ hist[i].exc = "LookupError" =>
                   DeclaredCharset(Arg(i)) \notin KnownCodecs \cup {"None"}
            /\ Arg(i).val.headers = "absent" => Returned(i)
            /\ Returned(i) =>
                   /\ Result(i).kind = "TextIOWrapper"
                   /\ Result(i).val.url = Arg(i).val.url
                   /\ Result(i).val.buffer = Arg(i)

C6_Witness ==
    /\ py3
    /\ calls = <<"binary_to_string_handle">>
    /\ x.val.headers = "absent"
    /\ x.val.url = "absent"
    /\ Returned(1)
    /\ Result(1).val.url = "absent"

\* r is t without its trailing "\n" characters: t is r followed by "\n"s only,
\* and r does not end with "\n".
IsWithoutTrailingLF(r, t) ==
    /\ Len(r) <= Len(t)
    /\ \A k \in 1 .. Len(r) : r[k] = t[k]
    /\ \A k \in (Len(r) + 1) .. Len(t) : t[k] = LF
    /\ r = <<>> \/ r[Len(r)] # LF

\* C7: on win32, getoutput of a command that spawns returns the text read
\* from the child (stdout and stderr merged, text mode) without its trailing
\* "\n" characters and otherwise unchanged.
C7_StripsTrailingNewlinesOnly ==
    \A i \in Calls :
        (Called(i, "getoutput") /\ win32 /\ Arg(i).val.spawns) =>
            /\ Returned(i)
            /\ Result(i).kind = "text"
            /\ IsWithoutTrailingLF(Result(i).val, universal_newlines(Arg(i).val.output))

C7_Witness ==
    /\ win32
    /\ calls = <<"getoutput">>
    /\ x.val.spawns
    /\ x.val.output = <<104, 32, LF>>
    /\ Result(1) = Value("text", <<104, 32>>)

\* C8 as stated: as_bytes of any bytes value or byte buffer returns, and what
\* it returns is its argument (read generously: a value equal to it).
C8_BinaryReturnedUnchanged ==
    \A i \in Calls :
        (Called(i, "as_bytes") /\ Arg(i).kind \in BinaryKinds) =>
            (Returned(i) /\ PyEq(Result(i), Arg(i)))

\* C8 as amended: as_bytes of a bytes value returns that very value; of a
\* byte buffer, the version >= 3 binding raises TypeError and the other
\* binding returns a bytes copy.
C8_BytesReturnedUnchanged ==
    \A i \in Calls :
        Called(i, "as_bytes") =>
            /\ Arg(i).kind = "bytes" =>
                   (Returned(i) /\ SameValue(Result(i), Arg(i)))
            /\ Arg(i).kind = "bytearray" =>
                   IF py3 THEN hist[i].exc = "TypeError"
                   ELSE Returned(i) /\ Result(i) = Value("bytes", Arg(i).val)

C8_Witness ==
    /\ py3
    /\ calls = <<"as_bytes">>
    /\ x = Value("bytes", <<0, 255>>)
    /\ Returned(1)
    /\ SameValue(Result(1), x)

\* C9: is_int_or_long returns True for every integer, whatever its magnitude
\* and whichever integer type the runtime gives it, and False for every
\* float, string, handle and command.
C9_IntegerKindOnly ==
    \A i \in Calls :
        (Called(i, "is_int_or_long") /\ Arg(i).kind # "bool") =>
            /\ Returned(i)
            /\ Result(i) = Bool(Arg(i).kind \in {"int", "long"})

C9_Witness ==
    /\ ~py3
    /\ calls = <<"is_int_or_long">>
    /\ x = Value("long", <<0, 0, 0, 0, 1>>)
    /\ Result(1) = Bool(TRUE)

\* C10: whichever bindings are active, as_unicode of a bytes value or byte
\* buffer returns its Latin-1 decoding (code point n for byte n).
C10_Latin1UnderBothBindings ==
    \A i \in Calls :
        (Called(i, "as_unicode") /\ Arg(i).kind \in BinaryKinds) =>
            /\ Returned(i)
            /\ Result(i) = Value("text", Arg(i).val)

====
